---- MODULE Spec2Model ----
(***************************************************************************)
(* State-machine model of src/ddqnAgent.py: the uniform and prioritized    *)
(* replay buffers, and the step/learn schedules of Agent (DDPG) and        *)
(* TD3Agent.                                                               *)
(*                                                                         *)
(* Conventions.                                                            *)
(*  - A transition (the Experience namedtuple) is [id, payload]: id is the *)
(*    ordinal of the addMem call that stored it, payload stands for the    *)
(*    five opaque fields.                                                  *)
(*  - Buffer indices are 0-based as in the code; memBuff is a TLA+         *)
(*    sequence, so the code's memBuff[i] is At(memBuff, i).                *)
(*  - A raised exception is recorded in last.raised; the variables keep    *)
(*    whatever the call had written before it raised.                      *)
(***************************************************************************)
EXTENDS Integers, Sequences, FiniteSets, TLC

(* ------------------------------ bounds -------------------------------- *)
\* Capacity of the replay buffer; the code's value is int(1e5), scaled down.
BUFFER_SIZE == 5
\* Number of addMem calls explored beyond the capacity (the ring wraps).
ExtraAdds == 2
\* Longest index / priority list handed to updatePriorities directly.
MaxUpd == 2

\* NormalNoiseDecayStrategy's decaySteps; the code's default is 10000.
DecaySteps == 4
\* Number of act calls explored.
MaxActs == 2
\* Number of Agent.step / TD3Agent.step calls explored.
MaxSteps == 24
\* TD3Agent's constructor argument totalTimeSteps (the beta schedule has
\* totalTimeSteps + 1 entries).
TotalTimeSteps == 20

(* ------------------------- program constants -------------------------- *)
BATCH_SIZE == 4
LEARN_EVERY == 4
UPDATE_CRITIC_TARGET_STEPS == 5
UPDATE_ACTOR_TARGET_STEPS == 5
TRAIN_ACTOR_STEPS == 5
\* GAMMA = 0.99 = GAMMA_NUM / GAMMA_DEN
GAMMA_NUM == 99
GAMMA_DEN == 100
\* NormalNoiseDecayStrategy's defaults initialNoiseRatio = 0.5 and
\* minNoiseRatio = 0.1, in tenths.
INITIAL_NOISE_TENTHS == 5
MIN_NOISE_TENTHS == 1
\* BETA_INITIAL = 0.4 and BETA_FINAL = 1.0, in tenths.
BETA_INITIAL_TENTHS == 4
BETA_FINAL_TENTHS == 10
\* TD3Agent's noiseRatio = 0.1 and noiseClipRatio = 0.5, in tenths.
NOISE_RATIO_TENTHS == 1
NOISE_CLIP_TENTHS == 5
\* PER_EPS = 1e-6, in millionths.
PER_EPS_MICROS == 1
\* OUNoise's defaults theta = 0.15 and sigma = 0.2, in hundredths.
THETA_HUNDREDTHS == 15
SIGMA_HUNDREDTHS == 20
\* TAU = 1e-3 = TAU_NUM / TAU_DEN
TAU_NUM == 1
TAU_DEN == 1000

MaxAdds == BUFFER_SIZE + ExtraAdds
\* Number of selectAction calls explored: past the end of the decay.
MaxSelects == DecaySteps + 3
\* The action bounds the agent is built with, wider than [-1, 1].
\* Action values are in hundredths.
ActionBounds == <<-200, 200>>
\* What the actor returns for a state, and the noise drawn for it.
\* The actor ends in tanh: its output is within [-1, 1].
GreedyVals == {-100, 0, 100}
\* What np.random.normal returns for scale 1; for another scale it returns
\* the scale times as much.
NoiseDraws == {-2, 0, 2}
\* Q values of a batch in millionths, and importance weights in quarters.
QMicros == {0, 1000000}
WeightQuarters == {1, 4}
\* The action bounds a TD3Agent smooths its target actions with, and what
\* torch.randn_like returns.
BoundsInputs == {<<-100, 100>>, ActionBounds}
RandnDraws == {-8, 0, 2, 8}
\* The fileName an agent is constructed with (none, or the name of a
\* weight file), and the actor parameters such a file holds.
FileNames == {"", "checkpoint.pth"}
FileWeights == {500, 1000}
\* The seeds components are constructed with.
Seeds == {0, 1, 7}
\* What random.random() returns, in hundredths: a value of [0, 1).
Uniforms == {0, 99}
\* The opaque content of a transition: no buffer operation reads it, and
\* the id already tells the stored transitions apart.
Payloads == {0}
\* Priorities handed to updatePriorities: perfect squares, so that
\* priority ** alpha is exact for alpha = 0.5, and 0 for a non-positive one.
PrioInputs == {0, 1, 4}
\* Indices handed to updatePriorities: below the range, the first two
\* slots (beyond the occupied range while the buffer holds less).
IdxInputs == {-1, 0, 1}
\* The prioritized buffer and the agents never read a transition's content.
OpaquePayloads == {0}
\* The values a parameter may have after an optimizer step (the optimizer
\* and the networks are black boxes), in fixed point.
ParamVals == {0, 1000}
\* The exponents beta handed to the prioritized memSample: whole numbers, so
\* that x ** (-beta) is exact on fractions.
Betas == {0, 1, 2}
\* What a batch gives learn for one sample: the reward, the two values of
\* the target critic on the noised next action, and the done flag.
Rewards == {0, 1}
QPairs == {<<3, 1>>, <<1, 3>>, <<2, 2>>}
Dones == {0, 1}
\* The values of TAU softUpdate is exercised with (the module sets 1e-3),
\* and the parameter values the networks may have reached by then.
Taus == {<<0, 1>>, <<TAU_NUM, TAU_DEN>>, <<1, 2>>, <<1, 1>>}
TrainedParamVals == {0, 5, 10}
\* The priorities TD3Agent.learn may report for a sampled transition.
LearnPrios == {1, 4}

VARIABLES
    memBuff,      \* ReplayBuffer.memBuff: deque(maxlen = BUFFER_SIZE)
    nAdded,       \* number of addMem calls so far (gives transitions their id)
    sumTree,      \* PrioritizedReplayBuffer.sumTree: its leaves
    minTree,      \* PrioritizedReplayBuffer.minTree: its leaves
    maxPriority,  \* PrioritizedReplayBuffer.maxPriority
    nextIdx,      \* PrioritizedReplayBuffer.nextIdx: the write slot
    tprio,        \* history: the priority last assigned to each stored
                  \* transition, kept in the order of memBuff
    stepNum,      \* Agent.stepNum / TD3Agent.stepNum
    net,          \* the parameters of the four networks, one number each:
                  \* actorLocal, actorTarget, criticLocal, criticTarget
    usePER,       \* TD3Agent.shouldUsePER
    kind,         \* the class of the agent: "Agent", "TD3Agent", or "none"
                  \* for a buffer on its own
    noise,        \* the exploration noise: OUNoise.state, and
                  \* NormalNoiseDecayStrategy's step and noiseRatio, with the
                  \* history of its selectAction calls
    rng,          \* the generator of the random module, and the generator
                  \* a buffer would own if it had one of its own
    updArgs,      \* the arguments the driver hands over, drawn when the
                  \* behaviour starts: the index and priority lists of
                  \* updatePriorities and memSample's beta, or the tensors
                  \* of one learn call
    last          \* the most recent call: its name, arguments, outcome

bufVars == <<memBuff, nAdded>>
perVars == <<sumTree, minTree, maxPriority, nextIdx, tprio>>
agentVars == <<stepNum, net, usePER>>
miscVars == <<kind, noise, rng>>
vars == <<memBuff, nAdded, sumTree, minTree, maxPriority, nextIdx, tprio,
          stepNum, net, usePER, kind, noise, rng, updArgs, last>>

NoCall == [op |-> "init", raised |-> FALSE, arg |-> <<>>, res |-> <<>>]

(* ---------------------------- ReplayBuffer ---------------------------- *)
\* The code's memBuff[i], i counted from 0.
At(buf, i) == buf[i + 1]

\* deque(maxlen = BUFFER_SIZE).append(e): a full deque drops its left end.
DequeAppendDropNewest(buf, e) ==
    IF Len(buf) >= BUFFER_SIZE THEN buf ELSE Append(buf, e)
DequeAppend(buf, e) ==
    IF Len(buf) >= BUFFER_SIZE THEN Append(Tail(buf), e) ELSE Append(buf, e)

\* Experience(state, action, reward, nextState, done)
Experience(n, p) == [id |-> n, payload |-> p]

\* random.sample(population, k) on a population of n elements: ValueError
\* when k > n, else the elements at k pairwise distinct positions (0-based
\* here), in selection order.  The set of its possible outcomes.
RandomSampleClamped(n, k) ==
    LET m == IF k > n THEN n ELSE k IN
    {[raised |-> FALSE, pos |-> s] :
        s \in {t \in [1..m -> 0..(n - 1)] :
                 \A i, j \in 1..m : i # j => t[i] # t[j]}}
RandomSampleWithReplacement(n, k) ==
    IF k > n
    THEN {[raised |-> TRUE, pos |-> <<>>]}
    ELSE {[raised |-> FALSE, pos |-> s] : s \in [1..k -> 0..(n - 1)]}
RandomSample(n, k) ==
    IF k > n
    THEN {[raised |-> TRUE, pos |-> <<>>]}
    ELSE {[raised |-> FALSE, pos |-> s] :
            s \in {t \in [1..k -> 0..(n - 1)] :
                     \A i, j \in 1..k : i # j => t[i] # t[j]}}

\* ReplayBuffer.memSample on buffer buf: the outcomes it may have.  The
\* batch keeps the order of the sample; no stored transition is None.
MemSampleOutcomes(buf) ==
    {IF o.raised
     THEN [raised |-> TRUE, pos |-> <<>>, batch |-> <<>>]
     ELSE [raised |-> FALSE, pos |-> o.pos,
           batch |-> [i \in 1..Len(o.pos) |-> At(buf, o.pos[i])]] :
       o \in RandomSample(Len(buf), BATCH_SIZE)}

\* What reading the sampled positions leaves of the deque: random.sample
\* and memBuff[idx] only read, no statement of either memSample writes
\* self.memBuff.
RECURSIVE SampledFromPopping(_, _)
SampledFromPopping(buf, pos) ==
    IF buf = <<>> THEN <<>>
    ELSE LET rest == SampledFromPopping(Tail(buf), [k \in DOMAIN pos |-> pos[k] - 1])
         IN  IF \E k \in DOMAIN pos : pos[k] = 0
             THEN rest ELSE <<Head(buf)>> \o rest
SampledFrom(buf, pos) == buf

\* ReplayBuffer.addMem
AddMem ==
    /\ nAdded < MaxAdds
    /\ \E p \in Payloads :
         LET e == Experience(nAdded + 1, p) IN
         /\ memBuff' = DequeAppend(memBuff, e)
         /\ nAdded' = nAdded + 1
         /\ last' = [op |-> "addMem", raised |-> FALSE, arg |-> e, res |-> <<>>]
    /\ UNCHANGED <<perVars, agentVars, updArgs, miscVars>>

\* ReplayBuffer.memSample
MemSample ==
    /\ \E o \in MemSampleOutcomes(memBuff) :
         /\ last' = [op |-> "memSample", raised |-> o.raised,
                  arg |-> memBuff, res |-> o]
         /\ memBuff' = SampledFrom(memBuff, o.pos)
    /\ UNCHANGED <<nAdded, perVars, agentVars, updArgs, miscVars>>

(* ----------------------- segment trees (library) ---------------------- *)
(* SumSegmentTree and MinSegmentTree come from baselines.common.           *)
(* segment_tree.  A tree is modelled by its leaves, a function on          *)
(* 0..capacity-1; an inner node of the library's array always holds the    *)
(* sum (minimum) of the leaves below it, so it is recomputed here.         *)

\* PrioritizedReplayBuffer.__init__: the least power of two >= BUFFER_SIZE.
RECURSIVE CapacityFrom(_)
CapacityFrom(c) == IF c < BUFFER_SIZE THEN CapacityFrom(2 * c) ELSE c
TreeCapacity == CapacityFrom(1)

\* The neutral element of the min tree, float('inf').
Infinity == 1000000

Min2(a, b) == IF a <= b THEN a ELSE b
Max2(a, b) == IF a >= b THEN a ELSE b

\* The sum (minimum) of leaves lo..hi; the neutral element when lo > hi.
RECURSIVE LeafSum(_, _, _)
LeafSum(tree, lo, hi) ==
    IF lo > hi THEN 0 ELSE tree[lo] + LeafSum(tree, lo + 1, hi)
RECURSIVE LeafMin(_, _, _)
LeafMin(tree, lo, hi) ==
    IF lo > hi THEN Infinity ELSE Min2(tree[lo], LeafMin(tree, lo + 1, hi))

\* SegmentTree.reduce(start, end) as called with start = 0: end None is the
\* capacity, a negative end counts from the capacity, then end -= 1 makes it
\* the last leaf included.  _reduce_helper(0, -1, ...) never meets its base
\* case: RecursionError.
ReduceLast(end) == (IF end < 0 THEN end + TreeCapacity ELSE end) - 1
ReduceRaises(end) == ReduceLast(end) < 0
\* SumSegmentTree.sum(0, end)
SumTo(tree, end) == LeafSum(tree, 0, ReduceLast(end))
\* SumSegmentTree.sum() and MinSegmentTree.min(): the root.
SumAll(tree) == LeafSum(tree, 0, TreeCapacity - 1)
MinAll(tree) == LeafMin(tree, 0, TreeCapacity - 1)

\* SumSegmentTree.find_prefixsum_idx(prefixsum), with the leaves scaled by
\* `scale`: descend from the root, left when the left child's sum exceeds
\* prefixsum, else right with the left sum subtracted.
RECURSIVE FindPrefixSumIdx(_, _, _, _, _)
FindPrefixSumIdx(tree, scale, lo, hi, prefixsum) ==
    IF lo = hi THEN lo
    ELSE LET mid == (lo + hi) \div 2
             left == scale * LeafSum(tree, lo, mid)
         IN  IF left > prefixsum
             THEN FindPrefixSumIdx(tree, scale, lo, mid, prefixsum)
             ELSE FindPrefixSumIdx(tree, scale, mid + 1, hi, prefixsum - left)

(* ----------------------- PrioritizedReplayBuffer ---------------------- *)
(* The operations are written on a buffer value b = [memBuff, sumTree,     *)
(* minTree, maxPriority, nextIdx, tprio], so that the agents can apply     *)
(* them to the buffer they own in the course of one step.                  *)

\* priority ** self.alpha for the constructor's default alpha = 0.5, exact
\* on the perfect squares the model uses as priorities.
PowAlpha(p) == CHOOSE r \in 0..p : r * r = p

\* The buffer the variables hold.
Buffer ==
    [memBuff |-> memBuff, sumTree |-> sumTree, minTree |-> minTree,
     maxPriority |-> maxPriority, nextIdx |-> nextIdx, tprio |-> tprio]

\* The variables take the fields of buffer value b.
SetBuffer(b) ==
    /\ memBuff' = b.memBuff
    /\ sumTree' = b.sumTree
    /\ minTree' = b.minTree
    /\ maxPriority' = b.maxPriority
    /\ nextIdx' = b.nextIdx
    /\ tprio' = b.tprio

\* The variables hold buffer value b (in the initial state).
SetInit(b) ==
    /\ memBuff = b.memBuff
    /\ sumTree = b.sumTree
    /\ minTree = b.minTree
    /\ maxPriority = b.maxPriority
    /\ nextIdx = b.nextIdx
    /\ tprio = b.tprio

\* PrioritizedReplayBuffer.__init__ (and ReplayBuffer.__init__)
NewBuffer ==
    [memBuff |-> <<>>,
     sumTree |-> [i \in 0..(TreeCapacity - 1) |-> 0],
     minTree |-> [i \in 0..(TreeCapacity - 1) |-> Infinity],
     maxPriority |-> 1, nextIdx |-> 0, tprio |-> <<>>]

\* ReplayBuffer.addMem on a buffer value: the trees are not touched.
PlainAdd(b, e) == [b EXCEPT !.memBuff = DequeAppend(b.memBuff, e)]

\* PrioritizedReplayBuffer.addMem
PerAddNoWrap(b, e) ==
    LET idx == b.nextIdx IN
    [b EXCEPT !.memBuff = DequeAppend(b.memBuff, e),
              !.sumTree[idx] = PowAlpha(b.maxPriority),
              !.minTree[idx] = PowAlpha(b.maxPriority),
              !.nextIdx = b.nextIdx + 1,
              !.tprio = DequeAppend(b.tprio, b.maxPriority)]
PerAdd(b, e) ==
    LET idx == b.nextIdx IN
    [b EXCEPT !.memBuff = DequeAppend(b.memBuff, e),
              !.sumTree[idx] = PowAlpha(b.maxPriority),
              !.minTree[idx] = PowAlpha(b.maxPriority),
              !.nextIdx = (b.nextIdx + 1) % BUFFER_SIZE,
              !.tprio = DequeAppend(b.tprio, b.maxPriority)]

PerAddMem ==
    /\ nAdded < MaxAdds
    /\ \E p \in OpaquePayloads :
         LET e == Experience(nAdded + 1, p) IN
         /\ SetBuffer(PerAdd(Buffer, e))
         /\ nAdded' = nAdded + 1
         /\ last' = [op |-> "per.addMem", raised |-> FALSE,
                     arg |-> e, res |-> <<>>]
    /\ UNCHANGED <<agentVars, updArgs, miscVars>>

\* One pass of updatePriorities' loop body, for the pair (idx, priority), on
\* st = [b |-> buffer, raised |-> an assertion failed]: the two assertions,
\* then the three writes.
UpdateOneNoRangeCheck(st, idx, priority) ==
    IF ~(priority > 0) \/ ~(0 <= idx /\ idx < TreeCapacity)
    THEN [st EXCEPT !.raised = TRUE]
    ELSE [st EXCEPT !.b.sumTree[idx] = PowAlpha(priority),
                    !.b.minTree[idx] = PowAlpha(priority),
                    !.b.maxPriority = Max2(st.b.maxPriority, priority),
                    !.b.tprio = IF idx < Len(st.b.memBuff)
                                THEN [st.b.tprio EXCEPT ![idx + 1] = priority]
                                ELSE st.b.tprio]
UpdateOneLastPriority(st, idx, priority) ==
    IF ~(priority > 0) \/ ~(0 <= idx /\ idx < Len(st.b.memBuff))
    THEN [st EXCEPT !.raised = TRUE]
    ELSE [st EXCEPT !.b.sumTree[idx] = PowAlpha(priority),
                    !.b.minTree[idx] = PowAlpha(priority),
                    !.b.maxPriority = priority,
                    !.b.tprio[idx + 1] = priority]
UpdateOneSumOnly(st, idx, priority) ==
    IF ~(priority > 0) \/ ~(0 <= idx /\ idx < Len(st.b.memBuff))
    THEN [st EXCEPT !.raised = TRUE]
    ELSE [st EXCEPT !.b.sumTree[idx] = PowAlpha(priority),
                    !.b.maxPriority = Max2(st.b.maxPriority, priority),
                    !.b.tprio[idx + 1] = priority]
UpdateOne(st, idx, priority) ==
    IF ~(priority > 0) \/ ~(0 <= idx /\ idx < Len(st.b.memBuff))
    THEN [st EXCEPT !.raised = TRUE]
    ELSE [st EXCEPT !.b.sumTree[idx] = PowAlpha(priority),
                    !.b.minTree[idx] = PowAlpha(priority),
                    !.b.maxPriority = Max2(st.b.maxPriority, priority),
                    !.b.tprio[idx + 1] = priority]

\* The loop over zip(indexes, priorities), which stops with the shorter list.
RECURSIVE UpdateLoop(_, _, _, _)
UpdateLoop(st, indexes, priorities, k) ==
    IF st.raised \/ k > Len(indexes) \/ k > Len(priorities) THEN st
    ELSE UpdateLoop(UpdateOne(st, indexes[k], priorities[k]),
                    indexes, priorities, k + 1)

\* assert len(indexes) == len(priorities)
LengthsAgree(indexes, priorities) == Len(indexes) = Len(priorities)

\* PrioritizedReplayBuffer.updatePriorities(indexes, priorities) on buffer
\* b: [b |-> the buffer it leaves, raised |-> an assertion failed].
UpdatePrioritiesAllOrNothing(b, indexes, priorities) ==
    LET r == UpdateLoop([b |-> b, raised |-> FALSE], indexes, priorities, 1)
    IN  IF ~LengthsAgree(indexes, priorities) \/ r.raised
        THEN [b |-> b, raised |-> TRUE]
        ELSE r
UpdatePrioritiesOn(b, indexes, priorities) ==
    IF ~LengthsAgree(indexes, priorities)
    THEN [b |-> b, raised |-> TRUE]
    ELSE UpdateLoop([b |-> b, raised |-> FALSE], indexes, priorities, 1)

SeqsUpTo(S, n) == UNION {[1..m -> S] : m \in 0..n}

UpdatePriorities ==
    /\ LET r == UpdatePrioritiesOn(Buffer, updArgs.indexes, updArgs.priorities)
       IN  /\ SetBuffer(r.b)
           /\ last' = [op |-> "updatePriorities", raised |-> r.raised,
                       arg |-> updArgs, res |-> Buffer]
    /\ UNCHANGED <<nAdded, agentVars, updArgs, miscVars>>

\* PrioritizedReplayBuffer.sampleProportional.  random.random() is in
\* [0, 1), so stratum i draws its mass from [i * L, (i + 1) * L) with
\* L = probTotal / BATCH_SIZE.  Masses and leaves are scaled by BATCH_SIZE to
\* stay integral; find_prefixsum_idx compares a mass with the integral sums
\* only through its integer part.
StratumMasses(probTotal, i) ==
    IF probTotal = 0 THEN {0}
    ELSE (i * probTotal)..((i + 1) * probTotal - 1)

StratumIdxs(tree, probTotal, i) ==
    {FindPrefixSumIdx(tree, BATCH_SIZE, 0, TreeCapacity - 1, m) :
        m \in StratumMasses(probTotal, i)}

\* The lists whose entry i (from 1) is an index of stratum i - 1, for the
\* strata below k.
RECURSIVE StratifiedLists(_, _, _)
StratifiedLists(tree, probTotal, k) ==
    IF k = 0 THEN {<<>>}
    ELSE {Append(s, x) : s \in StratifiedLists(tree, probTotal, k - 1),
                         x \in StratumIdxs(tree, probTotal, k - 1)}

\* The indexes sampleProportional may return at some position of its
\* result, on a buffer whose sum does not raise.
SampleableIdxs(b) ==
    UNION {StratumIdxs(b.sumTree, SumTo(b.sumTree, Len(b.memBuff) - 1), i) :
             i \in 0..(BATCH_SIZE - 1)}

\* [raised |-> sumTree.sum(0, len - 1) raised, idxs |-> the index lists
\* sampleProportional may return].
SampleProportional(b) ==
    LET end == Len(b.memBuff) - 1 IN
    IF ReduceRaises(end)
    THEN [raised |-> TRUE, idxs |-> {}]
    ELSE [raised |-> FALSE,
          idxs |-> StratifiedLists(b.sumTree, SumTo(b.sumTree, end), BATCH_SIZE)]

\* A call of sampleProportional on its own.
SampleProportionalCall ==
    /\ LET sp == SampleProportional(Buffer)
       IN  IF sp.raised
           THEN last' = [op |-> "per.sampleProportional", raised |-> TRUE,
                         arg |-> <<>>, res |-> <<>>]
           ELSE \E s \in sp.idxs :
                  last' = [op |-> "per.sampleProportional", raised |-> FALSE,
                           arg |-> <<>>, res |-> s]
    /\ UNCHANGED <<bufVars, perVars, agentVars, updArgs, miscVars>>

\* Fractions <<numerator, denominator>>, denominator > 0, for the importance
\* weights.
RECURSIVE IntPow(_, _)
IntPow(x, n) == IF n = 0 THEN 1 ELSE x * IntPow(x, n - 1)
RatLeq(a, b) == a[1] * b[2] <= b[1] * a[2]
RatEq(a, b) == a[1] * b[2] = b[1] * a[2]

\* The weight memSample(beta) gives index idx of buffer b:
\*   probMin = minTree.min() / sumTree.sum()
\*   maxWeight = (probMin * len(memBuff)) ** (-beta)
\*   probSample = sumTree[idx] / sumTree.sum()
\*   weight = (probSample * len(memBuff)) ** (-beta);  weight / maxWeight
\* as the fraction (sum/(leaf*len))**beta / (sum/(min*len))**beta.
ImportanceWeightUnnormalised(b, idx, beta) ==
    LET total == SumAll(b.sumTree)
        n == Len(b.memBuff)
    IN  <<IntPow(total, beta), IntPow(b.sumTree[idx] * n, beta)>>
ImportanceWeight(b, idx, beta) ==
    LET total == SumAll(b.sumTree)
        n == Len(b.memBuff)
        weight == <<IntPow(total, beta), IntPow(b.sumTree[idx] * n, beta)>>
        maxWeight == <<IntPow(total, beta), IntPow(MinAll(b.minTree) * n, beta)>>
    IN  <<weight[1] * maxWeight[2], weight[2] * maxWeight[1]>>

\* x ** (-beta) of a float x = 0.0 is a ZeroDivisionError unless beta = 0.
WeightRaises(b, idx, beta) ==
    beta > 0 /\ (b.sumTree[idx] * Len(b.memBuff) = 0
                 \/ MinAll(b.minTree) * Len(b.memBuff) = 0)

\* PrioritizedReplayBuffer.memSample(beta) on buffer b: the outcomes it may
\* have.  After sampleProportional, minTree.min() / sumTree.sum() divides by
\* zero when no leaf is set, a weight of a zero leaf divides by zero, and
\* encodedSample reads memBuff[idx], an IndexError when idx is not below the
\* length.
PerMemSampleOutcomes(b, beta) ==
    LET sp == SampleProportional(b)
        failed == [raised |-> TRUE, indexes |-> <<>>, batch |-> <<>>,
                   weights |-> <<>>, beta |-> beta]
        \* the weight loop's result for each stored index: <<>> when it raises
        weightOf == [i \in 0..(Len(b.memBuff) - 1) |->
                       IF WeightRaises(b, i, beta)
                       THEN <<>> ELSE ImportanceWeight(b, i, beta)]
    IN
    IF sp.raised \/ SumAll(b.sumTree) = 0
    THEN {failed}
    ELSE {IF \E i \in 1..BATCH_SIZE : s[i] >= Len(b.memBuff) \/ w[s[i]] = <<>>
          THEN failed
          ELSE [raised |-> FALSE, indexes |-> s,
                batch |-> [i \in 1..BATCH_SIZE |-> At(b.memBuff, s[i])],
                weights |-> [i \in 1..BATCH_SIZE |-> w[s[i]]],
                beta |-> beta] :
            s \in sp.idxs, w \in {weightOf}}

PerMemSample ==
    /\ \E o \in PerMemSampleOutcomes(Buffer, updArgs.beta) :
         /\ last' = [op |-> "per.memSample", raised |-> o.raised,
                     arg |-> memBuff, res |-> o]
         /\ memBuff' = SampledFrom(memBuff, o.indexes)
    /\ UNCHANGED <<nAdded, perVars, agentVars, updArgs, miscVars>>

(* ------------------------- exploration noise -------------------------- *)
\* np.clip(x, lo, hi)
NoClip(x, lo, hi) == x
Clip(x, lo, hi) == Min2(Max2(x, lo), hi)

\* An attribute that no statement has set yet: reading it is an
\* AttributeError.
NoAttribute == -1

\* OUNoise.__init__ with mu = 0, and NormalNoiseDecayStrategy.__init__,
\* which sets step, the bounds and the three parameters, and no noiseRatio.
NewNoise == [state |-> 0, step |-> 0, noiseRatio |-> NoAttribute,
             calls |-> 0, onlyDecay |-> TRUE]

\* NormalNoiseDecayStrategy.noiseRatioUpdate: the ratio for self.step, in
\* units of 1 / (10 * DecaySteps):
\*   (init - min) * (1 - step / decaySteps) + min, clipped to [min, init]
NoiseRatioAt(step) ==
    Clip((INITIAL_NOISE_TENTHS - MIN_NOISE_TENTHS) * (DecaySteps - step)
             + MIN_NOISE_TENTHS * DecaySteps,
         MIN_NOISE_TENTHS * DecaySteps, INITIAL_NOISE_TENTHS * DecaySteps)

\* selectAction's noiseScale, in units of 1 / (10 * DecaySteps) of a
\* hundredth, the unit of noiseRatio times the unit of the actions:
\*   noiseScale = self.high                   if maxExploration
\*   noiseScale = self.noiseRatio * self.high otherwise
NoiseScale(nz, maxExploration) ==
    IF maxExploration THEN 10 * DecaySteps * ActionBounds[2]
    ELSE nz.noiseRatio * ActionBounds[2]

\* NormalNoiseDecayStrategy.selectAction(network, state, maxExploration,
\* chooseGreedyAction) on noise record nz, the network returning greedy and
\* np.random.normal returning z: [noise, raised, action].  Reading
\* self.noiseRatio comes first; the greedy return leaves step and noiseRatio
\* alone.
SelectAction(nz, maxExploration, chooseGreedy, greedy, z) ==
    LET called == [nz EXCEPT !.calls = nz.calls + 1,
                             !.onlyDecay = nz.onlyDecay /\ ~maxExploration
                                               /\ ~chooseGreedy]
        noiseScale == NoiseScale(nz, maxExploration)
        noisyAction == greedy + (noiseScale * z) \div (10 * DecaySteps)
    IN  IF ~maxExploration /\ nz.noiseRatio = NoAttribute
        THEN [noise |-> called, raised |-> TRUE, action |-> 0,
              noiseScale |-> 0]
        ELSE IF chooseGreedy
        THEN [noise |-> called, raised |-> FALSE,
              action |-> Clip(greedy, ActionBounds[1], ActionBounds[2]),
              noiseScale |-> noiseScale]
        ELSE [noise |-> [called EXCEPT !.noiseRatio = NoiseRatioAt(nz.step),
                                       !.step = nz.step + 1],
              raised |-> FALSE,
              action |-> Clip(noisyAction, ActionBounds[1], ActionBounds[2]),
              noiseScale |-> noiseScale]

\* OUNoise.sample with mu = 0 and random.random() returning u: the new
\* state, which is also the sample.
OUSample(x, u) ==
    x + (THETA_HUNDREDTHS * (0 - x)) \div 100 + (SIGMA_HUNDREDTHS * u) \div 100

\* np.clip(actionVals, -1, 1), the last statement of both act methods.
ActNoClip(a) == a
ActClip(a) == Clip(a, -100, 100)

\* A call of selectAction on a strategy of its own.
StrategySelectAction ==
    /\ noise.calls < MaxSelects
    /\ \E maxExploration \in BOOLEAN, chooseGreedy \in BOOLEAN,
          greedy \in GreedyVals, z \in NoiseDraws :
         LET r == SelectAction(noise, maxExploration, chooseGreedy, greedy, z)
         IN  /\ noise' = r.noise
             /\ last' = [op |-> "selectAction", raised |-> r.raised,
                         arg |-> [maxExploration |-> maxExploration,
                                  chooseGreedyAction |-> chooseGreedy],
                         res |-> [action |-> r.action, noise |-> noise,
                                  noiseScale |-> r.noiseScale]]
    /\ UNCHANGED <<bufVars, perVars, agentVars, kind, rng, updArgs>>

(* ------------------------------ networks ------------------------------ *)
\* Agent.__init__ / TD3Agent.__init__: a local network and its target are
\* built from the same seed, so they start with the same parameters.
NewNet == [actorLocal |-> 0, actorTarget |-> 0,
           criticLocal |-> 0, criticTarget |-> 0]

\* The `if fileName:` block of the two constructors, on the networks just
\* built, the file holding actor parameters w: [net, raised].
\* Agent.__init__ calls torch.load(filename), a name that neither the
\* method nor the module defines: NameError, after the four networks were
\* built.  TD3Agent.__init__ calls torch.load(fileName) and loads the
\* result into the local and the target actor.
LoadWeights(k, fileName, w) ==
    IF fileName = "" THEN [net |-> NewNet, raised |-> FALSE]
    ELSE IF k = "Agent" THEN [net |-> NewNet, raised |-> TRUE]
    ELSE [net |-> [NewNet EXCEPT !.actorLocal = w, !.actorTarget = w],
          raised |-> FALSE]

\* Agent(...) or TD3Agent(...) with the arguments of updArgs; a
\* constructor that raises leaves no agent.
Construct ==
    /\ last.op = "init"
    /\ kind = "none"
    /\ LET r == LoadWeights(updArgs.kind, updArgs.fileName, updArgs.weights)
       IN  /\ net' = r.net
           /\ kind' = IF r.raised THEN "none" ELSE updArgs.kind
           /\ last' = [op |-> "__init__", raised |-> r.raised,
                       arg |-> updArgs, res |-> <<>>]
    /\ UNCHANGED <<bufVars, perVars, stepNum, usePER, noise, rng, updArgs>>

\* softUpdate: target = TAU * local + (1 - TAU) * target, in fixed point.
SoftUpdateSwapped(tauNum, tauDen, target, local) ==
    (tauNum * target + (tauDen - tauNum) * local) \div tauDen
SoftUpdateWith(tauNum, tauDen, target, local) ==
    (tauNum * local + (tauDen - tauNum) * target) \div tauDen
SoftUpdate(target, local) == SoftUpdateWith(TAU_NUM, TAU_DEN, target, local)

\* softUpdate(targetModel, localModel) of either agent, called on its actor
\* pair or on its critic pair, with the module's TAU set to
\* updArgs.tau = <<numerator, denominator>>: the loop writes the target's
\* parameters only.
SoftUpdateCall ==
    /\ \E which \in {"actor", "critic"} :
         /\ net' = IF which = "actor"
                   THEN [net EXCEPT !.actorTarget =
                           SoftUpdateWith(updArgs.tau[1], updArgs.tau[2],
                                          net.actorTarget, net.actorLocal)]
                   ELSE [net EXCEPT !.criticTarget =
                           SoftUpdateWith(updArgs.tau[1], updArgs.tau[2],
                                          net.criticTarget, net.criticLocal)]
         /\ last' = [op |-> "softUpdate", raised |-> FALSE,
                     arg |-> [which |-> which, tau |-> updArgs.tau],
                     res |-> net]
    /\ UNCHANGED <<bufVars, perVars, stepNum, usePER, updArgs, miscVars>>

(* ---------------------------- Agent (DDPG) ---------------------------- *)
\* Agent.step: `if self.stepNum == 0` and `if len(self.replayMem) > BATCH_SIZE`
AgentShouldLearnNoLenCheck(s, len) == s = 0
AgentShouldLearn(s, len) == s = 0 /\ len > BATCH_SIZE

\* Agent.learn: an optimizer step on the critic, one on the actor, then the
\* soft update of both targets.  cNew and aNew are the parameters the two
\* optimizer steps leave.
AgentLearnTrainsTargets(n, cNew, aNew) ==
    [actorLocal |-> aNew,
     actorTarget |-> aNew,
     criticLocal |-> cNew,
     criticTarget |-> cNew]
AgentLearn(n, cNew, aNew) ==
    [actorLocal |-> aNew,
     actorTarget |-> SoftUpdate(n.actorTarget, aNew),
     criticLocal |-> cNew,
     criticTarget |-> SoftUpdate(n.criticTarget, cNew)]

\* Agent.step: `self.stepNum = (self.stepNum + 1) % LEARN_EVERY`
AgentNextStepNumNoWrap(s) == s + 1
AgentNextStepNum(s) == (s + 1) % LEARN_EVERY

\* Agent.act(state, addNoise): the actor returns greedy; with addNoise the
\* OU process is sampled, which moves its state.
AgentAct ==
    /\ noise.calls < MaxActs
    /\ \E greedy \in GreedyVals, addNoise \in BOOLEAN, u \in Uniforms :
         LET sample == OUSample(noise.state, u)
             actionVals == IF addNoise THEN greedy + sample ELSE greedy
         IN  /\ noise' = [noise EXCEPT !.calls = noise.calls + 1,
                                       !.state = IF addNoise THEN sample
                                                 ELSE noise.state]
             /\ last' = [op |-> "Agent.act", raised |-> FALSE,
                         arg |-> [addNoise |-> addNoise],
                         res |-> [action |-> ActClip(actionVals),
                                  inRange |-> actionVals = Clip(actionVals, -100, 100)]]
    /\ UNCHANGED <<bufVars, perVars, agentVars, kind, rng, updArgs>>

\* Agent.step(state, action, reward, next_state, done)
AgentStep ==
    /\ nAdded < MaxSteps
    /\ \E p \in OpaquePayloads :
         LET e == Experience(nAdded + 1, p)
             b == PlainAdd(Buffer, e)
             s == AgentNextStepNum(stepNum)
         IN  /\ SetBuffer(b)
             /\ nAdded' = nAdded + 1
             /\ stepNum' = s
             /\ IF AgentShouldLearn(s, Len(b.memBuff))
                THEN \E o \in MemSampleOutcomes(b.memBuff) :
                       IF o.raised
                       THEN /\ net' = net
                            /\ last' = [op |-> "Agent.step", raised |-> TRUE,
                                        arg |-> e,
                                        res |-> [calls |-> <<"addMem", "memSample">>,
                                                 stepNum |-> stepNum, net |-> net]]
                       ELSE \E cNew \in ParamVals, aNew \in ParamVals :
                              /\ net' = AgentLearn(net, cNew, aNew)
                              /\ last' = [op |-> "Agent.step", raised |-> FALSE,
                                          arg |-> e,
                                          res |-> [calls |-> <<"addMem", "memSample", "learn">>,
                                                   stepNum |-> stepNum, net |-> net]]
                ELSE /\ net' = net
                     /\ last' = [op |-> "Agent.step", raised |-> FALSE,
                                 arg |-> e,
                                 res |-> [calls |-> <<"addMem">>,
                                          stepNum |-> stepNum, net |-> net]]
    /\ UNCHANGED <<usePER, updArgs, miscVars>>

(* ------------------------------ TD3Agent ------------------------------ *)
\* TD3Agent.step: `if self.stepNum % LEARN_EVERY == 0` and
\* `if len(self.replayMem) > BATCH_SIZE`
TD3ShouldLearn(s, len) == s % LEARN_EVERY = 0 /\ len > BATCH_SIZE

\* TD3Agent.learn: the three delays.
TrainActorGateEveryLearn(s) == s % LEARN_EVERY = 0
TrainActorGate(s) == s % TRAIN_ACTOR_STEPS = 0
CriticTargetGate(s) == s % UPDATE_CRITIC_TARGET_STEPS = 0
ActorTargetGate(s) == s % UPDATE_ACTOR_TARGET_STEPS = 0

\* self.betaSchedule[self.stepNum]: np.linspace(..., totalTimeSteps + 1) has
\* the indices 0..totalTimeSteps; IndexError beyond.
BetaIndexRaises(s) == s > TotalTimeSteps

\* torch.min(a, b), elementwise
TorchMax(a, b) == [k \in DOMAIN a |-> Max2(a[k], b[k])]
TorchMin(a, b) == [k \in DOMAIN a |-> Min2(a[k], b[k])]

\* TD3Agent.learn: Q_Targets = rewards + (GAMMA * Q_Targets_Next * (1 - dones))
\* with Q_Targets_Next = torch.min(Q_Targets_Next_A, Q_Targets_Next_B), all
\* of shape (BATCH_SIZE, 1).  The result is scaled by GAMMA_DEN.
QTargets(rewards, qA, qB, dones) ==
    LET next == TorchMin(qA, qB) IN
    [k \in DOMAIN rewards |->
        GAMMA_DEN * rewards[k] + GAMMA_NUM * next[k] * (1 - dones[k])]

\* The target computation of one learn call on the tensors the driver drew.
ComputeQTargets ==
    /\ last' = [op |-> "Q_Targets", raised |-> FALSE, arg |-> updArgs,
                res |-> QTargets(updArgs.rewards, updArgs.qA, updArgs.qB,
                                 updArgs.dones)]
    /\ UNCHANGED <<bufVars, perVars, agentVars, updArgs, miscVars>>

\* TD3Agent.learn(experiences) at step count s on buffer b and parameters
\* n.  With prioritized replay it first reports the priorities prios for the
\* sampled indexes (an assertion of updatePriorities ends learn there); then
\* the critic's optimizer step, and the three gated updates.  `applied`
\* lists the updates that ran.
\* TD3Agent.actionNoise for one entry of the batch: the target actor's
\* action nextAction, torch.randn_like returning z, the agent built with
\* bounds = <<actionMin, actionMax>>.  Actions are in hundredths.
\*   actionNoise = randn * self.noiseRatio * (actionMax - actionMin)
\*   actionNoise = max(min(actionNoise, noiseMax), noiseMin)
\*   noisyAction = max(min(nextAction + actionNoise, actionMax), actionMin)
ActionNoiseNoNoiseClip(bounds, nextAction, z) ==
    LET actionRange == bounds[2] - bounds[1]
        actionNoise == (z * NOISE_RATIO_TENTHS * actionRange) \div 10
    IN  Max2(Min2(nextAction + actionNoise, bounds[2]), bounds[1])
ActionNoise(bounds, nextAction, z) ==
    LET actionRange == bounds[2] - bounds[1]
        actionNoise == (z * NOISE_RATIO_TENTHS * actionRange) \div 10
        noiseMin == (bounds[1] * NOISE_CLIP_TENTHS) \div 10
        noiseMax == (bounds[2] * NOISE_CLIP_TENTHS) \div 10
        clipped == Max2(Min2(actionNoise, noiseMax), noiseMin)
    IN  Max2(Min2(nextAction + clipped, bounds[2]), bounds[1])

\* The noisy next actions learn computes for the batch of updArgs.
ComputeActionNoise ==
    /\ last.op = "init"
    /\ last' = [op |-> "actionNoise", raised |-> FALSE, arg |-> updArgs,
                res |-> [k \in 1..BATCH_SIZE |->
                           ActionNoise(updArgs.bounds, updArgs.nextActions[k],
                                       updArgs.randn[k])]]
    /\ UNCHANGED <<bufVars, perVars, agentVars, miscVars, updArgs>>

\* TD3Agent.learn with prioritized replay:
\*   tdError = torch.mul(abs(Q_Targets - Q_Expected_A) + PER_EPS, weights)
\* Q_Targets and Q_Expected_A have shape (BATCH_SIZE, 1) and weights has
\* shape (BATCH_SIZE,), so the product broadcasts to a square matrix:
\* tdError[i][k] is built from the error of position i and the weight of
\* position k.  The priorities are in millionths of a quarter.
Abs(x) == IF x < 0 THEN 0 - x ELSE x
TdError(targets, expectedA, weights) ==
    [i \in 1..BATCH_SIZE |->
       [k \in 1..BATCH_SIZE |->
          (Abs(targets[i] - expectedA[i]) + PER_EPS_MICROS) * weights[k]]]

\* `self.replayMem.updatePriorities(batchIdx, tdError[0])`: the first row.
ReportedPriorities(targets, expectedA, weights) ==
    TdError(targets, expectedA, weights)[1]

\* The priorities learn hands to updatePriorities for the batch of updArgs.
ReportPriorities ==
    /\ last.op = "init"
    /\ last' = [op |-> "reportPriorities", raised |-> FALSE, arg |-> updArgs,
                res |-> ReportedPriorities(updArgs.targets, updArgs.expectedA,
                                           updArgs.weights)]
    /\ UNCHANGED <<bufVars, perVars, agentVars, miscVars, updArgs>>

TD3Learn(n, b, s, per, indexes, prios, cNew, aNew) ==
    LET u == IF per THEN UpdatePrioritiesOn(b, indexes, prios)
                    ELSE [b |-> b, raised |-> FALSE]
        actor == IF TrainActorGate(s) THEN aNew ELSE n.actorLocal
    IN  IF u.raised
        THEN [net |-> n, b |-> u.b, raised |-> TRUE, applied |-> {}]
        ELSE [net |->
                [actorLocal |-> actor,
                 actorTarget |-> IF ActorTargetGate(s)
                                 THEN SoftUpdate(n.actorTarget, actor)
                                 ELSE n.actorTarget,
                 criticLocal |-> cNew,
                 criticTarget |-> IF CriticTargetGate(s)
                                  THEN SoftUpdate(n.criticTarget, cNew)
                                  ELSE n.criticTarget],
              b |-> u.b,
              raised |-> FALSE,
              applied |-> {"critic"}
                  \cup (IF TrainActorGate(s) THEN {"actor"} ELSE {})
                  \cup (IF CriticTargetGate(s) THEN {"criticTarget"} ELSE {})
                  \cup (IF ActorTargetGate(s) THEN {"actorTarget"} ELSE {})]

\* The batches memSample may hand to learn: [raised, indexes], the indexes
\* empty for the uniform buffer (learn's batchIdx is None).  Which index
\* lists the prioritized buffer may return does not depend on beta.
TD3SampleOutcomes(b, per) ==
    IF per
    THEN {[raised |-> o.raised, indexes |-> o.indexes] :
            o \in PerMemSampleOutcomes(b, 1)}
    ELSE {[raised |-> o.raised, indexes |-> <<>>] :
            o \in MemSampleOutcomes(b.memBuff)}

\* np.linspace(BETA_INITIAL, BETA_FINAL, totalTimeSteps + 1)[s], as the
\* fraction <<numerator, denominator>>:
\*   BETA_INITIAL + s * (BETA_FINAL - BETA_INITIAL) / totalTimeSteps
BetaScheduleReversed(s) ==
    <<BETA_FINAL_TENTHS * (TotalTimeSteps - s) + BETA_INITIAL_TENTHS * s,
      10 * TotalTimeSteps>>
BetaSchedule(s) ==
    <<BETA_INITIAL_TENTHS * (TotalTimeSteps - s) + BETA_FINAL_TENTHS * s,
      10 * TotalTimeSteps>>

\* What a step leaves in last; beta is the self.betaSchedule[self.stepNum]
\* a prioritized memSample was called with, stepNum being the counter the
\* step has just incremented.
TD3Last(raised, e, calls, applied) ==
    [op |-> "TD3.step", raised |-> raised, arg |-> e,
     res |-> [calls |-> calls, applied |-> applied, net |-> net,
              beta |-> IF usePER /\ Len(calls) >= 2
                       THEN BetaSchedule(stepNum + 1) ELSE <<>>]]

\* TD3Agent.step(state, action, reward, next_state, done)
TD3Step ==
    /\ nAdded < MaxSteps
    /\ \E p \in OpaquePayloads :
         LET e == Experience(nAdded + 1, p)
             b == IF usePER THEN PerAdd(Buffer, e) ELSE PlainAdd(Buffer, e)
             s == stepNum + 1
         IN  /\ nAdded' = nAdded + 1
             /\ stepNum' = s
             /\ IF ~TD3ShouldLearn(s, Len(b.memBuff))
                THEN /\ SetBuffer(b)
                     /\ net' = net
                     /\ last' = TD3Last(FALSE, e, <<"addMem">>, {})
                ELSE IF usePER /\ BetaIndexRaises(s)
                THEN /\ SetBuffer(b)
                     /\ net' = net
                     /\ last' = TD3Last(TRUE, e, <<"addMem">>, {})
                ELSE \E o \in TD3SampleOutcomes(b, usePER) :
                       IF o.raised
                       THEN /\ SetBuffer(b)
                            /\ net' = net
                            /\ last' = TD3Last(TRUE, e, <<"addMem", "memSample">>, {})
                       ELSE \E prios \in (IF usePER
                                          THEN [1..BATCH_SIZE -> LearnPrios]
                                          ELSE {<<>>}),
                               cNew \in ParamVals,
                               aNew \in (IF TrainActorGate(s)
                                         THEN ParamVals ELSE {net.actorLocal}) :
                              LET r == TD3Learn(net, b, s, usePER, o.indexes,
                                                prios, cNew, aNew)
                              IN  /\ SetBuffer(r.b)
                                  /\ net' = r.net
                                  /\ last' = TD3Last(r.raised, e,
                                               <<"addMem", "memSample", "learn">>,
                                               r.applied)
    /\ UNCHANGED <<usePER, updArgs, miscVars>>

\* TD3Agent.act(state, addNoise): maxExploration while the buffer holds
\* fewer than BUFFER_SIZE * 5 transitions, chooseGreedyAction = False.
MinSamplesWithinCapacity == BUFFER_SIZE
MinSamples == BUFFER_SIZE * 5
TD3Act ==
    /\ noise.calls < MaxActs
    /\ \E greedy \in GreedyVals, z \in NoiseDraws :
         LET shouldUseMaxExploration == Len(memBuff) < MinSamples
             r == SelectAction(noise, shouldUseMaxExploration, FALSE,
                               greedy, z)
         IN  /\ noise' = r.noise
             /\ last' = [op |-> "TD3.act", raised |-> r.raised,
                         arg |-> [addNoise |-> TRUE],
                         res |-> [maxExploration |-> shouldUseMaxExploration,
                                  action |-> ActClip(r.action),
                                  inRange |-> r.action = Clip(r.action, -100, 100)]]
    /\ UNCHANGED <<bufVars, perVars, agentVars, kind, rng, updArgs>>

(* ------------------------ the random module -------------------------- *)
\* Every class of ddqnAgent.py calls random.seed, random.sample and
\* random.random on the random module itself: there is one generator per
\* process, and `self.seed = random.seed(seed)` stores None.  The generator
\* stands in for the Mersenne Twister: a full-period linear congruential
\* generator over RngStates.  rng.global is the module's generator;
\* rng.own is the generator the ReplayBuffer would have if its seed had
\* made one of its own, advanced by the buffer's draws only; rng.foreign
\* tells whether another component has seeded or drawn since the buffer
\* was built.  The specifications that take a sampler's outcome as any
\* outcome leave rng alone.
RngStates == 0..15
RngNext(g) == (5 * g + 3) % 16
RngSeed(seed) == seed % 16
NewRng == [global |-> 0, own |-> 0, foreign |-> FALSE]

\* random.sample(population, k) from generator state g: k draws, each
\* taking one of the positions left in the pool and moving the pool's last
\* position into the hole.  [pos, g].
RECURSIVE SamplePool(_, _, _)
SamplePool(pool, k, g) ==
    IF k = 0 THEN [pos |-> <<>>, g |-> g]
    ELSE LET g1 == RngNext(g)
             j == (g1 % Len(pool)) + 1
             rest == [i \in 1..(Len(pool) - 1) |->
                        IF i = j THEN pool[Len(pool)] ELSE pool[i]]
             r == SamplePool(rest, k - 1, g1)
         IN  [pos |-> <<pool[j]>> \o r.pos, g |-> r.g]

\* ReplayBuffer.memSample drawing from generator state g: [raised, batch, g].
\* random.sample raises before it draws when the buffer is too short.
SeededSample(buf, g) ==
    IF Len(buf) < BATCH_SIZE
    THEN [raised |-> TRUE, batch |-> <<>>, g |-> g]
    ELSE LET r == SamplePool([i \in 1..Len(buf) |-> i], BATCH_SIZE, g)
         IN  [raised |-> FALSE,
              batch |-> [i \in 1..BATCH_SIZE |-> buf[r.pos[i]]],
              g |-> r.g]

\* ReplayBuffer.memSample as the process runs it, on the module's
\* generator; last.res.own is the batch the same call returns in the run
\* where no other component has drawn.
SeededMemSample ==
    LET o == SeededSample(memBuff, rng.global)
        own == SeededSample(memBuff, rng.own)
    IN  /\ last' = [op |-> "seeded.memSample", raised |-> o.raised,
                    arg |-> <<>>,
                    res |-> [batch |-> o.batch, own |-> own.batch]]
        /\ rng' = [rng EXCEPT !.global = o.g, !.own = own.g]
        /\ UNCHANGED <<bufVars, perVars, agentVars, kind, noise, updArgs>>

\* Constructing another ReplayBuffer, OUNoise or agent: random.seed(seed)
\* on the module's generator.
ConstructOther ==
    /\ \E seed \in Seeds :
         /\ rng' = [rng EXCEPT !.global = RngSeed(seed), !.foreign = TRUE]
         /\ last' = [op |-> "random.seed", raised |-> FALSE, arg |-> seed,
                     res |-> <<>>]
    /\ UNCHANGED <<bufVars, perVars, agentVars, kind, noise, updArgs>>

\* OUNoise.sample of another component: one random.random() per dimension
\* of the action; the action has one dimension here.
RECURSIVE RngSkip(_, _)
RngSkip(g, n) == IF n = 0 THEN g ELSE RngSkip(RngNext(g), n - 1)
OtherOUSample ==
    /\ rng' = [rng EXCEPT !.global = RngSkip(rng.global, 1), !.foreign = TRUE]
    /\ noise' = [noise EXCEPT
                   !.state = OUSample(noise.state,
                                      (100 * RngNext(rng.global)) \div 16)]
    /\ last' = [op |-> "OUNoise.sample", raised |-> FALSE, arg |-> <<>>,
                res |-> <<>>]
    /\ UNCHANGED <<bufVars, perVars, agentVars, kind, updArgs>>

\* PrioritizedReplayBuffer.sampleProportional of another buffer: one
\* random.random() per position of the batch.
OtherSampleProportional ==
    /\ rng' = [rng EXCEPT !.global = RngSkip(rng.global, BATCH_SIZE),
                          !.foreign = TRUE]
    /\ last' = [op |-> "sampleProportional", raised |-> FALSE, arg |-> <<>>,
                res |-> <<>>]
    /\ UNCHANGED <<bufVars, perVars, agentVars, kind, noise, updArgs>>

InitKind(args, per, k) ==
    /\ SetInit(NewBuffer)
    /\ nAdded = 0
    /\ stepNum = 0
    /\ net = NewNet
    /\ usePER = per
    /\ kind = k
    /\ noise = NewNoise
    /\ rng = NewRng
    /\ updArgs = args
    /\ last = NoCall

InitBut(args, per) == InitKind(args, per, "none")

NoUpdArgs == [indexes |-> <<>>, priorities |-> <<>>, beta |-> 1]

Init == InitBut(NoUpdArgs, FALSE)

\* A prioritized buffer whose driver has chosen the lists it will hand to
\* updatePriorities.
InitPER ==
    \E indexes \in SeqsUpTo(IdxInputs, MaxUpd),
       priorities \in SeqsUpTo(PrioInputs, MaxUpd) :
      InitBut([indexes |-> indexes, priorities |-> priorities, beta |-> 1],
              TRUE)

\* A prioritized buffer whose driver samples with any of the exponents, and
\* moves the priority of one of the first two slots in between.
InitSample ==
    \E idx \in {0, 1}, priority \in LearnPrios, beta \in Betas :
      InitBut([indexes |-> <<idx>>, priorities |-> <<priority>>, beta |-> beta],
              TRUE)

NextRB == AddMem \/ MemSample

SpecRB == Init /\ [][NextRB]_vars

NextPER == PerAddMem \/ PerMemSample \/ UpdatePriorities

SpecPER == InitPER /\ [][NextPER]_vars

\* A buffer of either class: usePER tells which one was constructed.
InitBuffers == Init \/ InitSample

NextBuffers == (~usePER /\ NextRB) \/ (usePER /\ NextPER)

SpecBuffers == InitBuffers /\ [][NextBuffers]_vars

SpecSample == InitSample /\ [][NextPER]_vars

\* The same buffer with sampleProportional called directly.
NextProportional == PerAddMem \/ UpdatePriorities \/ SampleProportionalCall

SpecProportional == InitSample /\ [][NextProportional]_vars

\* A TD3Agent about to compute the targets of a batch: any rewards, done
\* flags and target-critic values.
InitTargets ==
    \E rewards \in [1..BATCH_SIZE -> Rewards], q \in [1..BATCH_SIZE -> QPairs],
       dones \in [1..BATCH_SIZE -> Dones] :
      InitBut([rewards |-> rewards,
               qA |-> [k \in 1..BATCH_SIZE |-> q[k][1]],
               qB |-> [k \in 1..BATCH_SIZE |-> q[k][2]],
               dones |-> dones], FALSE)

NextTargets == ComputeQTargets

SpecTargets == InitTargets /\ [][NextTargets]_vars

\* An agent whose networks have been trained to any parameters, in a
\* module whose TAU has been set to any of Taus.
InitSoft ==
    \E n \in [{"actorLocal", "actorTarget", "criticLocal", "criticTarget"}
                -> TrainedParamVals],
       tau \in Taus :
      /\ SetInit(NewBuffer)
      /\ nAdded = 0
      /\ stepNum = 0
      /\ net = n
      /\ usePER = FALSE
      /\ kind = "none"
      /\ noise = NewNoise
      /\ rng = NewRng
      /\ updArgs = [tau |-> tau]
      /\ last = NoCall

NextSoft == SoftUpdateCall

SpecSoft == InitSoft /\ [][NextSoft]_vars

\* A TD3Agent with prioritized replay about to report the priorities of a
\* batch: any targets, critic values and importance weights.
InitPriorities ==
    \E targets \in [1..BATCH_SIZE -> QMicros],
       expectedA \in [1..BATCH_SIZE -> QMicros],
       weights \in [1..BATCH_SIZE -> WeightQuarters] :
      InitKind([targets |-> targets, expectedA |-> expectedA,
                weights |-> weights], TRUE, "TD3Agent")

NextPriorities == ReportPriorities

SpecPriorities == InitPriorities /\ [][NextPriorities]_vars

\* A ReplayBuffer constructed with any of the seeds, in a process where
\* other components are constructed and draw too.
InitSeeded ==
    \E seed \in Seeds :
      /\ SetInit(NewBuffer)
      /\ nAdded = 0
      /\ stepNum = 0
      /\ net = NewNet
      /\ usePER = FALSE
      /\ kind = "none"
      /\ noise = NewNoise
      /\ rng = [global |-> RngSeed(seed), own |-> RngSeed(seed),
                foreign |-> FALSE]
      /\ updArgs = NoUpdArgs
      /\ last = NoCall

NextSeeded ==
    \/ AddMem
    \/ SeededMemSample
    \/ ConstructOther
    \/ OtherOUSample
    \/ OtherSampleProportional

SpecSeeded == InitSeeded /\ [][NextSeeded]_vars

\* A TD3Agent about to smooth the target actor's actions for a batch.
InitActionNoise ==
    \E bounds \in BoundsInputs,
       nextActions \in [1..BATCH_SIZE -> GreedyVals],
       randn \in [1..BATCH_SIZE -> RandnDraws] :
      InitKind([bounds |-> bounds, nextActions |-> nextActions,
                randn |-> randn], FALSE, "TD3Agent")

NextActionNoise == ComputeActionNoise

SpecActionNoise == InitActionNoise /\ [][NextActionNoise]_vars

\* A process about to construct an agent of either class, with or without
\* a weight file; the agent is then stepped.
InitConstruct ==
    \E k \in {"Agent", "TD3Agent"}, fileName \in FileNames, w \in FileWeights :
      InitBut([kind |-> k, fileName |-> fileName, weights |-> w], FALSE)

NextConstruct ==
    \/ Construct
    \/ kind = "Agent" /\ AgentStep
    \/ kind = "TD3Agent" /\ TD3Step

SpecConstruct == InitConstruct /\ [][NextConstruct]_vars

NextNoise == StrategySelectAction

SpecNoise == Init /\ [][NextNoise]_vars

NextAgent == AgentStep

SpecAgent == Init /\ [][NextAgent]_vars

\* A TD3Agent built with usePER False or True.
InitTD3 == \E per \in BOOLEAN : InitBut(NoUpdArgs, per)

NextTD3 == TD3Step

SpecTD3 == InitTD3 /\ [][NextTD3]_vars

\* An agent of either class, stepped and asked for actions in any order.
InitAgents ==
    \/ InitKind(NoUpdArgs, FALSE, "Agent")
    \/ \E per \in BOOLEAN : InitKind(NoUpdArgs, per, "TD3Agent")

NextAgents ==
    \/ kind = "Agent" /\ (AgentStep \/ AgentAct)
    \/ kind = "TD3Agent" /\ (TD3Step \/ TD3Act)

SpecAgents == InitAgents /\ [][NextAgents]_vars

Next == NextRB \/ NextPER \/ NextAgent \/ NextTD3

Spec == Init /\ [][Next]_vars

(* ------------------------------ claims -------------------------------- *)
Range(f) == {f[i] : i \in DOMAIN f}

\* C1: after any sequence of ReplayBuffer.addMem calls the buffer holds no
\* more than BUFFER_SIZE transitions, and they are the most recently added
\* ones (ids nAdded-len+1 .. nAdded) in insertion order, the newest being
\* the transition just handed to addMem.
C1_RingEviction ==
    /\ Len(memBuff) <= BUFFER_SIZE
    /\ Len(memBuff) = Min2(nAdded, BUFFER_SIZE)
    /\ \A i \in 0..(Len(memBuff) - 1) :
          At(memBuff, i).id = nAdded - Len(memBuff) + 1 + i
    /\ last.op = "addMem" => At(memBuff, Len(memBuff) - 1) = last.arg

\* C1 witness: an addMem on a full buffer has evicted the oldest transition.
C1_Witness == last.op = "addMem" /\ nAdded > BUFFER_SIZE

\* C2 (as claimed): for every occupied index i, sumTree[i] and minTree[i]
\* are priority ** alpha (alpha = 0.5) of the transition stored at
\* memBuff[i], also after the write slot has wrapped.
C2_TreesIndexedLikeStore ==
    \A i \in 0..(Len(memBuff) - 1) :
        /\ sumTree[i] * sumTree[i] = tprio[i + 1]
        /\ minTree[i] * minTree[i] = tprio[i + 1]

\* C3: Agent.step (DDPG) stores the transition, advances the counter modulo
\* LEARN_EVERY, and calls memSample followed by learn exactly when the
\* counter has wrapped to zero and the buffer holds strictly more than
\* BATCH_SIZE transitions; on every other step neither is called, and no
\* step ends in the sampling failure.
C3_AgentStepLearnsOnWrap ==
    last.op = "Agent.step" =>
        /\ At(memBuff, Len(memBuff) - 1) = last.arg
        /\ stepNum = (last.res.stepNum + 1) % LEARN_EVERY
        /\ IF stepNum = 0 /\ Len(memBuff) > BATCH_SIZE
           THEN last.res.calls = <<"addMem", "memSample", "learn">>
           ELSE /\ last.res.calls = <<"addMem">>
                /\ net = last.res.net
        /\ ~last.raised

\* C3 witness: the second wrap of the counter, where the buffer holds more
\* than BATCH_SIZE transitions and learn has changed the networks.
C3_Witness ==
    /\ last.op = "Agent.step"
    /\ last.res.calls = <<"addMem", "memSample", "learn">>
    /\ net # last.res.net
    /\ nAdded = 2 * LEARN_EVERY

\* The states after a step of TD3Agent in which learn ran to its end.
TD3Learned ==
    /\ last.op = "TD3.step"
    /\ ~last.raised
    /\ last.res.calls = <<"addMem", "memSample", "learn">>

\* C4 (as claimed): in a TD3Agent driven by consecutive step calls the
\* critic target keeps its previous value on every step whose count is not
\* a multiple of UPDATE_CRITIC_TARGET_STEPS and is replaced by its soft
\* update on every step whose count is one (steps 1-4 unchanged, step 5
\* updated); likewise the actor target with UPDATE_ACTOR_TARGET_STEPS.
C4_TargetsOnCadence ==
    last.op = "TD3.step" =>
        /\ IF stepNum % UPDATE_CRITIC_TARGET_STEPS = 0
           THEN /\ "criticTarget" \in last.res.applied
                /\ net.criticTarget =
                     SoftUpdate(last.res.net.criticTarget, net.criticLocal)
           ELSE net.criticTarget = last.res.net.criticTarget
        /\ IF stepNum % UPDATE_ACTOR_TARGET_STEPS = 0
           THEN /\ "actorTarget" \in last.res.applied
                /\ net.actorTarget =
                     SoftUpdate(last.res.net.actorTarget, net.actorLocal)
           ELSE net.actorTarget = last.res.net.actorTarget

\* What the code does instead of C4: learn only runs on steps whose count
\* is a multiple of LEARN_EVERY, so a target moves only on steps whose count
\* is a multiple of both LEARN_EVERY and its own cadence (with 4 and 5: step
\* 20, not step 5), where it is replaced by its soft update whenever learn
\* runs to its end; on every other step it keeps its previous value.
C4_TargetsOnCommonMultiples ==
    last.op = "TD3.step" =>
        /\ IF /\ stepNum % LEARN_EVERY = 0
              /\ stepNum % UPDATE_CRITIC_TARGET_STEPS = 0
              /\ TD3Learned
           THEN /\ "criticTarget" \in last.res.applied
                /\ net.criticTarget =
                     SoftUpdate(last.res.net.criticTarget, net.criticLocal)
           ELSE /\ "criticTarget" \notin last.res.applied
                /\ net.criticTarget = last.res.net.criticTarget
        /\ IF /\ stepNum % LEARN_EVERY = 0
              /\ stepNum % UPDATE_ACTOR_TARGET_STEPS = 0
              /\ TD3Learned
           THEN /\ "actorTarget" \in last.res.applied
                /\ net.actorTarget =
                     SoftUpdate(last.res.net.actorTarget, net.actorLocal)
           ELSE /\ "actorTarget" \notin last.res.applied
                /\ net.actorTarget = last.res.net.actorTarget

\* The first step on which both targets move (step 20).
C4_FirstTargetMove ==
    /\ TD3Learned
    /\ stepNum = LEARN_EVERY * UPDATE_CRITIC_TARGET_STEPS
    /\ net.criticTarget # last.res.net.criticTarget
    /\ net.actorTarget # last.res.net.actorTarget

\* C5: a learn call of TD3Agent at step count s takes an optimizer step on
\* the local critic always, updates the local actor iff
\* s % TRAIN_ACTOR_STEPS = 0, soft-updates the critic target iff
\* s % UPDATE_CRITIC_TARGET_STEPS = 0 and the actor target iff
\* s % UPDATE_ACTOR_TARGET_STEPS = 0.
C5_DelayedUpdatesGated ==
    TD3Learned =>
        /\ "critic" \in last.res.applied
        /\ "actor" \in last.res.applied <=> stepNum % TRAIN_ACTOR_STEPS = 0
        /\ "actor" \notin last.res.applied =>
               net.actorLocal = last.res.net.actorLocal
        /\ "criticTarget" \in last.res.applied
               <=> stepNum % UPDATE_CRITIC_TARGET_STEPS = 0
        /\ "criticTarget" \notin last.res.applied =>
               net.criticTarget = last.res.net.criticTarget
        /\ "actorTarget" \in last.res.applied
               <=> stepNum % UPDATE_ACTOR_TARGET_STEPS = 0
        /\ "actorTarget" \notin last.res.applied =>
               net.actorTarget = last.res.net.actorTarget

\* C5 witness: a learn call with prioritized replay on which all four
\* updates ran and the local actor moved.
C5_Witness ==
    /\ TD3Learned
    /\ last.res.applied = {"critic", "actor", "criticTarget", "actorTarget"}
    /\ net.actorLocal # last.res.net.actorLocal
    /\ usePER

\* C6: after a successful updatePriorities(indexes, priorities) every given
\* index holds priority ** alpha of its last pair in both trees,
\* maxPriority is at least every given priority, and every other leaf is
\* what it was before the call.
C6_UpdateWritesLeaves ==
    (last.op = "updatePriorities" /\ ~last.raised) =>
        LET idxs == last.arg.indexes
            prios == last.arg.priorities
            n == Len(idxs)
        IN  /\ n = Len(prios)
            /\ \A k \in 1..n :
                  /\ maxPriority >= prios[k]
                  /\ (\A j \in (k + 1)..n : idxs[j] # idxs[k]) =>
                        /\ sumTree[idxs[k]] * sumTree[idxs[k]] = prios[k]
                        /\ minTree[idxs[k]] * minTree[idxs[k]] = prios[k]
            /\ \A i \in 0..(TreeCapacity - 1) :
                  i \notin Range(idxs) =>
                        /\ sumTree[i] = last.res.sumTree[i]
                        /\ minTree[i] = last.res.minTree[i]

\* C6 witness: a successful update that names one index twice with two
\* different priorities.
C6_Witness ==
    /\ last.op = "updatePriorities" /\ ~last.raised
    /\ Len(last.arg.indexes) = 2
    /\ last.arg.indexes[1] = last.arg.indexes[2]
    /\ last.arg.priorities[1] # last.arg.priorities[2]

\* C7: updatePriorities raises whenever a given priority is <= 0, a given
\* index is outside [0, len(memBuff)), or the two lists differ in length.
C7_UpdateRejects ==
    last.op = "updatePriorities" =>
        LET idxs == last.arg.indexes
            prios == last.arg.priorities
        IN  (\/ \E k \in 1..Len(prios) : prios[k] <= 0
             \/ \E k \in 1..Len(idxs) :
                   idxs[k] < 0 \/ idxs[k] >= Len(memBuff)
             \/ Len(idxs) # Len(prios))
            => last.raised

\* C7 witness: a call with positive priorities and lists of one length is
\* rejected for an index at or beyond the length of a non-empty buffer.
C7_Witness ==
    /\ last.op = "updatePriorities" /\ last.raised
    /\ Len(memBuff) > 0
    /\ Len(last.arg.indexes) = Len(last.arg.priorities)
    /\ \A k \in 1..Len(last.arg.priorities) : last.arg.priorities[k] > 0
    /\ \A k \in 1..Len(last.arg.indexes) : last.arg.indexes[k] >= 0
    /\ \E k \in 1..Len(last.arg.indexes) : last.arg.indexes[k] >= Len(memBuff)

\* C8: ReplayBuffer.memSample on fewer than BATCH_SIZE transitions raises
\* and leaves the stored transitions as they were.
C8_SampleRejectsShortBuffer ==
    (last.op = "memSample" /\ Len(last.arg) < BATCH_SIZE) =>
        last.raised /\ memBuff = last.arg

\* C8 witness: memSample has raised on a non-empty buffer.
C8_Witness == last.op = "memSample" /\ last.raised /\ Len(memBuff) > 0

\* C9 (as claimed): PrioritizedReplayBuffer.memSample on fewer than
\* BATCH_SIZE transitions raises instead of returning a batch.
C9_PerSampleRejectsShortBuffer ==
    (last.op = "per.memSample" /\ Len(memBuff) < BATCH_SIZE) => last.raised

\* C10: ReplayBuffer.memSample on at least BATCH_SIZE transitions returns
\* BATCH_SIZE transitions, read at BATCH_SIZE pairwise distinct positions
\* of the buffer.
C10_SampleDistinct ==
    (last.op = "memSample" /\ Len(last.arg) >= BATCH_SIZE) =>
        /\ ~last.raised
        /\ Len(last.res.pos) = BATCH_SIZE
        /\ Len(last.res.batch) = BATCH_SIZE
        /\ \A i \in 1..BATCH_SIZE :
              /\ last.res.pos[i] \in 0..(Len(memBuff) - 1)
              /\ last.res.batch[i] = At(memBuff, last.res.pos[i])
        /\ \A i, j \in 1..BATCH_SIZE :
              i # j => last.res.pos[i] # last.res.pos[j]

\* C10 witness: a batch drawn from a buffer holding more than BATCH_SIZE
\* transitions.
C10_Witness ==
    last.op = "memSample" /\ ~last.raised /\ Len(memBuff) > BATCH_SIZE

\* C11: memSample of either buffer class is non-destructive: a step that is
\* a memSample call (raising or not) leaves the stored transitions, their
\* order and the length unchanged, and the two trees, maxPriority and
\* nextIdx as well.
C11_MemSampleNonDestructive ==
    [][last'.op \in {"memSample", "per.memSample"} =>
          /\ memBuff' = memBuff
          /\ sumTree' = sumTree
          /\ minTree' = minTree
          /\ maxPriority' = maxPriority
          /\ nextIdx' = nextIdx]_vars

\* C11 witness: a batch has been returned by a prioritized buffer whose
\* trees hold an updated priority, and the transitions are those the call
\* was made on.
C11_Witness ==
    /\ last.op = "per.memSample"
    /\ ~last.raised
    /\ maxPriority > 1
    /\ last.arg = memBuff
    /\ Len(memBuff) >= BATCH_SIZE

\* C12: every importance weight a successful memSample(beta), beta >= 0,
\* returns is at most 1; of two sampled indices the one with the smaller
\* leaf (priority ** alpha) never has the smaller weight; and a sampled
\* index whose leaf is the minimum of the whole tree has weight 1.
C12_WeightsAtMostOne ==
    (last.op = "per.memSample" /\ ~last.raised) =>
        LET w == last.res.weights
            idx == last.res.indexes
        IN  /\ \A k \in 1..BATCH_SIZE : RatLeq(w[k], <<1, 1>>)
            /\ \A j, k \in 1..BATCH_SIZE :
                  sumTree[idx[j]] <= sumTree[idx[k]] => RatLeq(w[k], w[j])
            /\ \A k \in 1..BATCH_SIZE :
                  sumTree[idx[k]] = MinAll(minTree) => RatEq(w[k], <<1, 1>>)

\* C12 witness: a batch with beta > 0 that holds both the minimum-priority
\* slot (weight 1) and a slot of higher priority (weight below 1).
C12_Witness ==
    /\ last.op = "per.memSample"
    /\ ~last.raised
    /\ last.res.beta > 0
    /\ \E j, k \in 1..BATCH_SIZE :
          /\ RatEq(last.res.weights[j], <<1, 1>>)
          /\ ~RatLeq(<<1, 1>>, last.res.weights[k])

\* C13: the Bellman target of every sample k of a TD3Agent.learn batch is
\* reward_k + GAMMA * min(Q_A_k, Q_B_k) * (1 - done_k) (scaled by
\* GAMMA_DEN): where Q_A > Q_B for all samples it is the target derived
\* from Q_B, and where done_k = 1 it is the reward.
C13_TargetUsesMinOfTwins ==
    last.op = "Q_Targets" =>
        LET a == last.arg
            allAAboveB == \A k \in 1..BATCH_SIZE : a.qA[k] > a.qB[k]
        IN  \A k \in 1..BATCH_SIZE :
              /\ a.qA[k] <= a.qB[k] /\ a.dones[k] = 0 =>
                   last.res[k] = GAMMA_DEN * a.rewards[k] + GAMMA_NUM * a.qA[k]
              /\ a.qB[k] <= a.qA[k] /\ a.dones[k] = 0 =>
                   last.res[k] = GAMMA_DEN * a.rewards[k] + GAMMA_NUM * a.qB[k]
              /\ allAAboveB =>
                   last.res[k] = GAMMA_DEN * a.rewards[k]
                                   + GAMMA_NUM * a.qB[k] * (1 - a.dones[k])
              /\ a.dones[k] = 1 => last.res[k] = GAMMA_DEN * a.rewards[k]

\* C13 witness: targets computed for a batch with Q_A > Q_B in every sample,
\* holding both a terminal and a non-terminal transition.
C13_Witness ==
    /\ last.op = "Q_Targets"
    /\ \A k \in 1..BATCH_SIZE : last.arg.qA[k] > last.arg.qB[k]
    /\ \E j, k \in 1..BATCH_SIZE : last.arg.dones[j] = 1 /\ last.arg.dones[k] = 0

\* C14: softUpdate sets the target parameter to TAU * local +
\* (1 - TAU) * target_old (here to the fixed-point number just below it)
\* and leaves the local parameter and the other pair of networks as they
\* were; with TAU = 0 the target is unchanged, so repeating the call changes
\* nothing, and with TAU = 1 the target is an exact copy of the local.
C14_SoftUpdateIsPolyak ==
    last.op = "softUpdate" =>
        LET pre == last.res
            tn == last.arg.tau[1]
            td == last.arg.tau[2]
            actor == last.arg.which = "actor"
            t0 == IF actor THEN pre.actorTarget ELSE pre.criticTarget
            l0 == IF actor THEN pre.actorLocal ELSE pre.criticLocal
            t1 == IF actor THEN net.actorTarget ELSE net.criticTarget
            mix == tn * l0 + (td - tn) * t0
        IN  /\ net.actorLocal = pre.actorLocal
            /\ net.criticLocal = pre.criticLocal
            /\ actor => net.criticTarget = pre.criticTarget
            /\ ~actor => net.actorTarget = pre.actorTarget
            /\ td * t1 <= mix /\ mix < td * t1 + td
            /\ tn = 0 => net = pre
            /\ tn = td => t1 = l0

\* C14 witness: a soft update with the module's own TAU has moved a target
\* towards a local that differs from it.
C14_Witness ==
    /\ last.op = "softUpdate"
    /\ last.arg.tau = <<TAU_NUM, TAU_DEN>>
    /\ last.arg.which = "critic"
    /\ net.criticTarget # last.res.criticTarget
    /\ net.criticTarget # net.criticLocal

\* C15 (as claimed): on a freshly constructed NormalNoiseDecayStrategy
\* called with maxExploration = False only, every call succeeds, noiseRatio
\* is within [minNoiseRatio, initialNoiseRatio] and never grows, and from the
\* decaySteps-th call on it is minNoiseRatio.
C15_NoiseRatioDecays ==
    (last.op = "selectAction" /\ noise.onlyDecay) =>
        /\ ~last.raised
        /\ noise.noiseRatio >= MIN_NOISE_TENTHS * DecaySteps
        /\ noise.noiseRatio <= INITIAL_NOISE_TENTHS * DecaySteps
        /\ last.res.noise.noiseRatio # NoAttribute =>
               noise.noiseRatio <= last.res.noise.noiseRatio
        /\ noise.calls >= DecaySteps =>
               noise.noiseRatio = MIN_NOISE_TENTHS * DecaySteps

\* What the code does instead: a call with maxExploration = False raises
\* until a noise-drawing call has set noiseRatio; once set, noiseRatio is in
\* range, and it is the ratio of the step before the call that set it, so it
\* is minNoiseRatio from the (decaySteps + 1)-th noise-drawing call on.
C15_NoiseRatioOnceSet ==
    /\ (last.op = "selectAction" /\ ~last.arg.maxExploration
           /\ last.res.noise.noiseRatio = NoAttribute) => last.raised
    /\ noise.noiseRatio # NoAttribute =>
          /\ noise.noiseRatio >= MIN_NOISE_TENTHS * DecaySteps
          /\ noise.noiseRatio <= INITIAL_NOISE_TENTHS * DecaySteps
          /\ noise.noiseRatio = NoiseRatioAt(noise.step - 1)
          /\ (noise.noiseRatio = MIN_NOISE_TENTHS * DecaySteps
                <=> noise.step >= DecaySteps + 1)

C15_ReachesMinimum ==
    /\ last.op = "selectAction"
    /\ noise.step = DecaySteps + 1
    /\ noise.noiseRatio = MIN_NOISE_TENTHS * DecaySteps
    /\ last.res.noise.noiseRatio > MIN_NOISE_TENTHS * DecaySteps

\* C16 (as claimed): every step call makes stepNum strictly larger, and
\* no operation decreases it, in Agent and in TD3Agent.
C16_StepNumMonotone ==
    [][/\ stepNum' >= stepNum
       /\ last'.op \in {"Agent.step", "TD3.step"} => stepNum' > stepNum]_vars

\* C16 (amended): TD3Agent.step adds one to stepNum; Agent.step adds one
\* modulo LEARN_EVERY, so Agent's stepNum stays within 0..LEARN_EVERY-1 and
\* drops to 0 on every LEARN_EVERY-th step; act leaves stepNum alone.
C16_StepNumAdvances ==
    [][/\ last'.op = "TD3.step" => stepNum' = stepNum + 1
       /\ last'.op = "Agent.step" =>
            /\ stepNum' = (stepNum + 1) % LEARN_EVERY
            /\ stepNum' \in 0..(LEARN_EVERY - 1)
            /\ stepNum = LEARN_EVERY - 1 => stepNum' = 0
       /\ last'.op \in {"Agent.act", "TD3.act"} => stepNum' = stepNum]_vars

C16_Witness ==
    /\ last.op = "Agent.step"
    /\ last.res.stepNum = LEARN_EVERY - 1
    /\ stepNum = 0
    /\ nAdded > LEARN_EVERY

\* C17: the actor-target and critic-target parameters change only inside
\* softUpdate.  act, a step that does not learn, and a TD3Agent learn whose
\* gate for a target is closed leave that target as it was; a target that
\* changes in a step that learns becomes the Polyak average of its old value
\* and the local network the optimizer has just produced, never that
\* network itself.
C17_TargetsOnlySoftUpdated ==
    [][/\ last'.op \in {"Agent.act", "TD3.act"} =>
            /\ net'.actorTarget = net.actorTarget
            /\ net'.criticTarget = net.criticTarget
       /\ (last'.op \in {"Agent.step", "TD3.step"}
             /\ last'.res.calls # <<"addMem", "memSample", "learn">>) =>
            /\ net'.actorTarget = net.actorTarget
            /\ net'.criticTarget = net.criticTarget
       /\ (last'.op = "TD3.step" /\ "actorTarget" \notin last'.res.applied) =>
            net'.actorTarget = net.actorTarget
       /\ (last'.op = "TD3.step" /\ "criticTarget" \notin last'.res.applied) =>
            net'.criticTarget = net.criticTarget
       /\ net'.actorTarget # net.actorTarget =>
            net'.actorTarget = SoftUpdate(net.actorTarget, net'.actorLocal)
       /\ net'.criticTarget # net.criticTarget =>
            net'.criticTarget = SoftUpdate(net.criticTarget, net'.criticLocal)]_vars

\* A TD3Agent step whose learn trained the critic and then moved the
\* critic target by the soft update.
C17_Witness ==
    /\ last.op = "TD3.step"
    /\ {"critic", "criticTarget"} \subseteq last.res.applied
    /\ net.criticTarget # last.res.net.criticTarget
    /\ net.criticTarget # net.criticLocal

\* C20: every action Agent.act and TD3Agent.act return lies in [-1, 1]
\* (-100..100 in hundredths) whatever noise was added, and act changes
\* neither the replay buffer and its trees, nor stepNum, nor a network
\* parameter.
C20_ActClippedAndReadOnly ==
    [][last'.op \in {"Agent.act", "TD3.act"} =>
          /\ ~last'.raised => /\ last'.res.action >= -100
                              /\ last'.res.action <= 100
          /\ memBuff' = memBuff
          /\ sumTree' = sumTree
          /\ minTree' = minTree
          /\ maxPriority' = maxPriority
          /\ nextIdx' = nextIdx
          /\ stepNum' = stepNum
          /\ net' = net]_vars

\* An act on an agent that has stored transitions and learned, whose noisy
\* action was out of [-1, 1] before the clip.
C20_Witness ==
    /\ last.op \in {"Agent.act", "TD3.act"}
    /\ ~last.res.inRange
    /\ last.res.action \in {-100, 100}
    /\ Len(memBuff) > BATCH_SIZE
    /\ net # NewNet

\* C18 (as claimed): the priority learn reports for position k of the batch
\* is (|Q_target_k - Q_A_k| + PER_EPS) * weight_k.
C18_OwnErrorOwnWeight ==
    last.op = "reportPriorities" =>
        \A k \in 1..BATCH_SIZE :
            last.res[k] =
                (Abs(last.arg.targets[k] - last.arg.expectedA[k]) + PER_EPS_MICROS)
                    * last.arg.weights[k]

\* What the code reports instead: for every position k, the TD error of the
\* first position of the batch, scaled by the weight of position k.
C18_FirstErrorOwnWeight ==
    last.op = "reportPriorities" =>
        /\ Len(last.res) = BATCH_SIZE
        /\ \A k \in 1..BATCH_SIZE :
              last.res[k] =
                  (Abs(last.arg.targets[1] - last.arg.expectedA[1]) + PER_EPS_MICROS)
                      * last.arg.weights[k]

\* C19 (as claimed): the batches a ReplayBuffer returns from memSample do
\* not depend on what other components draw: every memSample returns the
\* batch it returns in the run where no other component has seeded the
\* generator or drawn from it.
C19_BatchesIndependentOfOthers ==
    last.op = "seeded.memSample" => last.res.batch = last.res.own

\* What the code guarantees: the batches are reproducible as long as the
\* buffer is the only component that has used the random module since the
\* buffer was constructed.
C19_ReproducibleWhenAlone ==
    /\ ~rng.foreign => rng.global = rng.own
    /\ (last.op = "seeded.memSample" /\ ~rng.foreign) =>
            last.res.batch = last.res.own

C19_OtherDrawChangesBatch ==
    /\ last.op = "seeded.memSample"
    /\ ~last.raised
    /\ rng.foreign
    /\ last.res.batch # last.res.own

\* C21: PrioritizedReplayBuffer.addMem writes maxPriority^alpha into both
\* trees at the write slot it found, and into no other leaf, then sets
\* nextIdx to (slot + 1) mod BUFFER_SIZE; nextIdx is always within
\* 0..BUFFER_SIZE-1, and the leaves from BUFFER_SIZE on keep the values the
\* constructor gave them.
C21_AddMemWritesOneSlot ==
    [][/\ last'.op = "per.addMem" =>
            /\ sumTree' = [sumTree EXCEPT ![nextIdx] = PowAlpha(maxPriority)]
            /\ minTree' = [minTree EXCEPT ![nextIdx] = PowAlpha(maxPriority)]
            /\ nextIdx' = (nextIdx + 1) % BUFFER_SIZE
       /\ nextIdx \in 0..(BUFFER_SIZE - 1)
       /\ nextIdx' \in 0..(BUFFER_SIZE - 1)
       /\ \A i \in BUFFER_SIZE..(TreeCapacity - 1) :
            /\ sumTree'[i] = NewBuffer.sumTree[i]
            /\ minTree'[i] = NewBuffer.minTree[i]]_vars

\* An addMem on a full buffer that has just wrapped the write slot to 0,
\* with a maxPriority an update has raised.
C21_Witness ==
    /\ last.op = "per.addMem"
    /\ nAdded >= BUFFER_SIZE
    /\ nextIdx = 0
    /\ maxPriority > 1
    /\ sumTree[BUFFER_SIZE - 1] = PowAlpha(maxPriority)

C22_LastSlotNeverSampled ==
    /\ Len(memBuff) >= 2 =>
          SampleableIdxs(Buffer) \subseteq 0..(Len(memBuff) - 2)
    /\ (last.op = "per.memSample" /\ ~last.raised) =>
          \A k \in 1..BATCH_SIZE : last.res.indexes[k] <= Len(memBuff) - 2

\* C23 (as claimed): sampleProportional returns BATCH_SIZE indexes, the
\* k-th from the k-th stratum of the mass, non-decreasing in k and all
\* within [0, len(memBuff)), so updatePriorities accepts them.
C23_SampledIndexesInRange ==
    (last.op = "per.sampleProportional" /\ ~last.raised) =>
        /\ Len(last.res) = BATCH_SIZE
        /\ \A k \in 1..BATCH_SIZE :
              last.res[k] \in StratumIdxs(sumTree,
                                          SumTo(sumTree, Len(memBuff) - 1),
                                          k - 1)
        /\ \A k \in 1..(BATCH_SIZE - 1) : last.res[k] <= last.res[k + 1]
        /\ \A k \in 1..BATCH_SIZE :
              last.res[k] >= 0 /\ last.res[k] < Len(memBuff)
        /\ ~UpdatePrioritiesOn(Buffer, last.res,
                               [k \in 1..BATCH_SIZE |-> 1]).raised

\* What the code guarantees: the same, on a buffer of at least two
\* transitions.  On one transition the sum raises, and on none the mass is
\* the sum of leaves that were never written.
C23_InRangeFromTwo ==
    (last.op = "per.sampleProportional" /\ Len(memBuff) >= 2) =>
        /\ ~last.raised
        /\ Len(last.res) = BATCH_SIZE
        /\ \A k \in 1..(BATCH_SIZE - 1) : last.res[k] <= last.res[k + 1]
        /\ \A k \in 1..BATCH_SIZE :
              last.res[k] >= 0 /\ last.res[k] < Len(memBuff)
        /\ ~UpdatePrioritiesOn(Buffer, last.res,
                               [k \in 1..BATCH_SIZE |-> 1]).raised

C23_SpreadOverStrata ==
    /\ last.op = "per.sampleProportional"
    /\ ~last.raised
    /\ Len(memBuff) = BUFFER_SIZE
    /\ nAdded > BUFFER_SIZE
    /\ last.res[1] < last.res[BATCH_SIZE]

\* C24: maxPriority starts at 1, addMem and memSample leave it alone, and
\* updatePriorities makes it the maximum of its old value and the
\* priorities of the pairs it applied, so it never decreases and is the
\* maximum of 1 and every priority applied so far; right after addMem the
\* leaf just written is >= every other leaf of sumTree.
C24_MaxPriorityIsRunningMax ==
    [][/\ last.op = "init" => maxPriority = 1
       /\ maxPriority' >= maxPriority
       /\ last'.op \in {"per.addMem", "per.memSample"} =>
            maxPriority' = maxPriority
       /\ last'.op = "updatePriorities" =>
            LET idxs == last'.arg.indexes
                prios == last'.arg.priorities
                applied ==
                    IF Len(idxs) # Len(prios) THEN {}
                    ELSE {k \in 1..Len(idxs) :
                            \A j \in 1..k :
                               /\ prios[j] > 0
                               /\ idxs[j] >= 0
                               /\ idxs[j] < Len(memBuff)}
            IN  /\ \A k \in applied : maxPriority' >= prios[k]
                /\ \/ maxPriority' = maxPriority
                   \/ \E k \in applied : maxPriority' = prios[k]
       /\ last'.op = "per.addMem" =>
            \A i \in 0..(TreeCapacity - 1) : sumTree'[nextIdx] >= sumTree'[i]]_vars

\* An addMem after updatePriorities has raised maxPriority: the new leaf
\* is larger than the leaf of an older transition.
C24_Witness ==
    /\ last.op = "per.addMem"
    /\ maxPriority = 4
    /\ Len(memBuff) >= 3
    /\ \E i \in 0..(BUFFER_SIZE - 1), j \in 0..(BUFFER_SIZE - 1) :
          /\ sumTree[i] = PowAlpha(maxPriority)
          /\ sumTree[j] > 0
          /\ sumTree[j] < sumTree[i]

\* C25: a TD3Agent's buffer never holds more than BUFFER_SIZE transitions,
\* which is below the 5 * BUFFER_SIZE that act asks for, so every act
\* selects maximal exploration: selectAction never reads noiseRatio through
\* the agent, and act does not raise.
C25_ActAlwaysMaxExploration ==
    /\ Len(memBuff) <= BUFFER_SIZE
    /\ BUFFER_SIZE < MinSamples
    /\ last.op = "TD3.act" =>
          /\ last.res.maxExploration
          /\ ~last.raised

\* An act on a TD3Agent whose buffer is full and has evicted transitions.
C25_Witness ==
    /\ last.op = "TD3.act"
    /\ last.res.maxExploration
    /\ Len(memBuff) = BUFFER_SIZE
    /\ nAdded > BUFFER_SIZE
    /\ noise.step > 0

\* C26: in a TD3Agent with prioritized replay, a step that samples does so
\* at a step count s <= totalTimeSteps with beta = betaSchedule[s], which
\* is within [BETA_INITIAL, BETA_FINAL], not below the beta of any earlier
\* step count, and BETA_FINAL at s = totalTimeSteps.
C26_BetaFollowsSchedule ==
    (last.op = "TD3.step" /\ usePER /\ Len(last.res.calls) >= 2) =>
        /\ stepNum <= TotalTimeSteps
        /\ RatEq(last.res.beta,
                 <<BETA_INITIAL_TENTHS * TotalTimeSteps
                       + (BETA_FINAL_TENTHS - BETA_INITIAL_TENTHS) * stepNum,
                   10 * TotalTimeSteps>>)
        /\ RatLeq(<<BETA_INITIAL_TENTHS, 10>>, last.res.beta)
        /\ RatLeq(last.res.beta, <<BETA_FINAL_TENTHS, 10>>)
        /\ \A t \in 0..stepNum : RatLeq(BetaSchedule(t), last.res.beta)
        /\ stepNum = TotalTimeSteps =>
              RatEq(last.res.beta, <<BETA_FINAL_TENTHS, 10>>)

\* The learning step at s = totalTimeSteps, sampled with BETA_FINAL.
C26_Witness ==
    /\ last.op = "TD3.step"
    /\ usePER
    /\ last.res.calls = <<"addMem", "memSample", "learn">>
    /\ stepNum = TotalTimeSteps
    /\ RatEq(last.res.beta, <<1, 1>>)

\* C27 (as claimed): when it draws noise, selectAction scales it by the
\* full action range high - low if maxExploration is requested and by
\* noiseRatio * (high - low) otherwise, and the action it returns is within
\* [low, high].
C27_NoiseScaleIsRange ==
    (last.op = "selectAction" /\ ~last.raised) =>
        /\ ~last.arg.chooseGreedyAction =>
              last.res.noiseScale =
                  (IF last.arg.maxExploration THEN 10 * DecaySteps
                   ELSE last.res.noise.noiseRatio)
                      * (ActionBounds[2] - ActionBounds[1])
        /\ last.res.action >= ActionBounds[1]
        /\ last.res.action <= ActionBounds[2]

\* What the code does instead: the scale is built from high alone, half
\* the range for bounds symmetric about 0; the action is within the bounds.
C27_NoiseScaleIsHigh ==
    (last.op = "selectAction" /\ ~last.raised) =>
        /\ last.res.noiseScale =
              (IF last.arg.maxExploration THEN 10 * DecaySteps
               ELSE last.res.noise.noiseRatio) * ActionBounds[2]
        /\ last.res.action >= ActionBounds[1]
        /\ last.res.action <= ActionBounds[2]

C27_DecayedScaleUsed ==
    /\ last.op = "selectAction"
    /\ ~last.raised
    /\ ~last.arg.maxExploration
    /\ ~last.arg.chooseGreedyAction
    /\ last.res.noiseScale > 0
    /\ last.res.noiseScale < 10 * DecaySteps * ActionBounds[2]
    /\ last.res.action \notin GreedyVals

C29_ConstructLoadsActors ==
    (last.op = "__init__" /\ last.arg.fileName # "") =>
        /\ ~last.raised
        /\ kind = last.arg.kind
        /\ net.actorLocal = last.arg.weights
        /\ net.actorTarget = last.arg.weights
        /\ net.criticLocal = NewNet.criticLocal
        /\ net.criticTarget = NewNet.criticTarget

\* What the code does: TD3Agent loads the file into both actors and leaves
\* the critics alone; Agent with a file name raises and no agent exists;
\* without a file name both constructors complete.
C29_OnlyTD3Loads ==
    last.op = "__init__" =>
        /\ last.raised <=> (last.arg.kind = "Agent" /\ last.arg.fileName # "")
        /\ last.raised => kind = "none"
        /\ (last.arg.kind = "TD3Agent" /\ last.arg.fileName # "") =>
              /\ net.actorLocal = last.arg.weights
              /\ net.actorTarget = last.arg.weights
              /\ net.criticLocal = NewNet.criticLocal
              /\ net.criticTarget = NewNet.criticTarget

C29_TD3Loaded ==
    /\ last.op = "__init__"
    /\ last.arg.kind = "TD3Agent"
    /\ last.arg.fileName # ""
    /\ net.actorLocal # NewNet.actorLocal
    /\ net.actorTarget = net.actorLocal

\* C30: updatePriorities is not all-or-nothing.  When the lists differ in
\* length it raises and changes nothing.  Otherwise the pairs before the
\* first one that breaks a precondition (priority <= 0, or index outside
\* [0, len(memBuff))) are written to both trees and folded into
\* maxPriority, that pair and the ones after it are not, and the call
\* raises exactly when there is such a pair.
C30_UpdateAppliesPrefix ==
    last.op = "updatePriorities" =>
        LET idxs == last.arg.indexes
            prios == last.arg.priorities
            pre == last.res
            bad == {k \in 1..Len(idxs) :
                      \/ prios[k] <= 0
                      \/ idxs[k] < 0
                      \/ idxs[k] >= Len(pre.memBuff)}
            first == IF bad = {} THEN Len(idxs) + 1
                     ELSE CHOOSE k \in bad : \A j \in bad : k <= j
            writes(i) == {j \in 1..(first - 1) : idxs[j] = i}
            leaf(old, i) ==
                IF writes(i) = {} THEN old
                ELSE PowAlpha(prios[CHOOSE j \in writes(i) :
                                       \A h \in writes(i) : h <= j])
        IN  IF Len(idxs) # Len(prios)
            THEN last.raised /\ Buffer = pre
            ELSE /\ last.raised <=> bad # {}
                 /\ \A i \in 0..(TreeCapacity - 1) :
                       /\ sumTree[i] = leaf(pre.sumTree[i], i)
                       /\ minTree[i] = leaf(pre.minTree[i], i)
                 /\ \A j \in 1..(first - 1) : maxPriority >= prios[j]
                 /\ \/ maxPriority = pre.maxPriority
                    \/ \E j \in 1..(first - 1) : maxPriority = prios[j]
                 /\ memBuff = pre.memBuff
                 /\ nextIdx = pre.nextIdx

\* A call that raised on its second pair after its first pair had changed
\* a leaf of both trees and raised maxPriority.
C30_Witness ==
    /\ last.op = "updatePriorities"
    /\ last.raised
    /\ Len(last.arg.indexes) = 2
    /\ Len(last.arg.priorities) = 2
    /\ last.arg.priorities[1] > 1
    /\ sumTree # last.res.sumTree
    /\ minTree # last.res.minTree
    /\ maxPriority > last.res.maxPriority

====
